---------------------------- MODULE Spec2Model ----------------------------
(***************************************************************************)
(* A model of nextgo's annotation resolution and route synthesis:          *)
(* bindHandleFuncMapping, BuildRestfulApi, HandleFunc.mergeMapping,        *)
(* resolveIncludeExclude and the emitters' use of them                     *)
(* (app/nextgo/cmd/codegen).                                               *)
(*                                                                         *)
(* Go strings that the code takes apart (file names, parameter names,      *)
(* middleware tokens) are sequences of one-character strings, so that      *)
(* strings.Split, TrimPrefix, HasSuffix, "+" and "<" are computed, not     *)
(* assumed.  Strings that are only compared for equality (scopes,          *)
(* locations, error messages) are TLA+ strings.                            *)
(***************************************************************************)
EXTENDS Integers, Sequences, FiniteSets, TLC

VARIABLES
    pc,          \* position of the run: which operation is next
    arrs,        \* resolveIncludeExclude: the argument (SpecResolve)
    out,         \* resolveIncludeExclude: the value returned (SpecResolve)
    input,       \* the scanned API as handed to BuildRestfulApi (never changed)
    handlers,    \* api.Handlers, as bindHandleFuncMapping leaves its elements
    mem,         \* the Mapping values behind the *Mapping pointers, by address
    args,        \* the backing array of each handler's RequestArgs, by handler id
    results,     \* the backing array of each handler's ResponseResult, by handler id
    apis,        \* RestfulApi.Apis: <<pattern, method>> -> HandleFunc (by value)
    err,         \* the error BuildRestfulApi returned (NoErr: none)
    genDone,     \* routes generateHandler has run for
    svrDone,     \* routes generateServer's loop has passed
    nameCount,   \* the process-wide counter map of getAutoIncrementName
    routeInfo,   \* per route, what generateHandler handed to the handler template
    svrApis,     \* per route, the serverApiData generateServer built
    source,      \* the source files Parse walks, each with its declarations
    walked,      \* how many of them Parse has walked
    errs         \* Parser.errs of the walked files, which Parse prints

vars == <<pc, arrs, out, input, handlers, mem, args, results, apis, err, genDone,
          svrDone, nameCount, routeInfo, svrApis, source, walked, errs>>

pipelineVars == <<input, handlers, mem, args, results, apis, err, genDone, svrDone,
                  nameCount, routeInfo, svrApis>>

parseVars == <<source, walked, errs>>

---------------------------------------------------------------------------
(* Go strings                                                              *)

\* The byte value of a character: Go compares strings byte-wise.
Ord(c) ==
    CASE c = "-" -> 45
      [] c = "." -> 46
      [] c = "/" -> 47
      [] c = "a" -> 97
      [] c = "b" -> 98
      [] c = "c" -> 99
      [] c = "d" -> 100
      [] c = "e" -> 101
      [] c = "g" -> 103
      [] c = "i" -> 105
      [] c = "l" -> 108
      [] c = "m" -> 109
      [] c = "o" -> 111
      [] c = "q" -> 113
      [] c = "r" -> 114
      [] c = "t" -> 116
      [] c = "w" -> 119
      [] c = "x" -> 120
      [] c = "{" -> 123
      [] c = "}" -> 125

\* s < t on Go strings: byte-wise lexicographic order.
RECURSIVE StrLess(_, _)
StrLess(s, t) ==
    IF t = <<>> THEN FALSE
    ELSE IF s = <<>> THEN TRUE
    ELSE IF Ord(Head(s)) < Ord(Head(t)) THEN TRUE
    ELSE IF Ord(Head(s)) > Ord(Head(t)) THEN FALSE
    ELSE StrLess(Tail(s), Tail(t))

\* strings.HasPrefix
HasPrefix(s, p) ==
    /\ Len(p) <= Len(s)
    /\ SubSeq(s, 1, Len(p)) = p

\* strings.HasSuffix
HasSuffix(s, p) ==
    /\ Len(p) <= Len(s)
    /\ SubSeq(s, Len(s) - Len(p) + 1, Len(s)) = p

\* strings.TrimPrefix
TrimPrefix(s, p) ==
    IF HasPrefix(s, p) THEN SubSeq(s, Len(p) + 1, Len(s)) ELSE s

\* strings.TrimSuffix
TrimSuffix(s, p) ==
    IF HasSuffix(s, p) THEN SubSeq(s, 1, Len(s) - Len(p)) ELSE s

\* strings.Split(s, "/"): the segments between separators, empty ones kept.
RECURSIVE SplitAcc(_, _, _)
SplitAcc(s, cur, acc) ==
    IF s = <<>> THEN Append(acc, cur)
    ELSE IF Head(s) = "/" THEN SplitAcc(Tail(s), <<>>, Append(acc, cur))
    ELSE SplitAcc(Tail(s), Append(cur, Head(s)), acc)

Split(s) == SplitAcc(s, <<>>, <<>>)

\* strings.Join(ss, "/")
RECURSIVE Join(_)
Join(ss) ==
    IF ss = <<>> THEN <<>>
    ELSE IF Len(ss) = 1 THEN ss[1]
    ELSE ss[1] \o <<"/">> \o Join(Tail(ss))

\* lo.Uniq: the first occurrence of every element, in order.
RECURSIVE UniqAcc(_, _)
UniqAcc(s, acc) ==
    IF s = <<>> THEN acc
    ELSE IF \E j \in DOMAIN acc : acc[j] = Head(s)
         THEN UniqAcc(Tail(s), acc)
         ELSE UniqAcc(Tail(s), Append(acc, Head(s)))

\* A variant of lo.Uniq that keeps the last occurrence of every element.
RECURSIVE UniqLast(_)
UniqLast(s) ==
    IF s = <<>> THEN <<>>
    ELSE IF \E j \in 2..Len(s) : s[j] = Head(s)
         THEN UniqLast(Tail(s))
         ELSE <<Head(s)>> \o UniqLast(Tail(s))

Uniq(s) == UniqAcc(s, <<>>)

---------------------------------------------------------------------------
(* resolveIncludeExclude                                                   *)

\* A variant of isSub under which no token is a removal token.
isSubNever(s) == FALSE

isSub(s) == HasSuffix(s, <<"-">>)

\* A variant of isX under which no token removes another.
isXNever(s, x) == FALSE

isX(s, x) == s \o <<"-">> = x

\* The counter of buildSub after the loop over ss, started at i.
RECURSIVE buildSubFrom(_, _, _)
buildSubFrom(s, ss, i) ==
    IF ss = <<>> THEN i
    ELSE IF Head(ss) = s THEN buildSubFrom(s, Tail(ss), i + 1)
    ELSE IF isX(s, Head(ss)) THEN buildSubFrom(s, Tail(ss), i - 1)
    ELSE buildSubFrom(s, Tail(ss), i)

\* A variant of buildSub that does not count the token itself.
buildSubNoSelf(s, ss) == buildSubFrom(s, ss, 0)

buildSub(s, ss) == buildSubFrom(s, ss, 1)

\* The loop of resolveIncludeExclude from index i on, result accumulated.
RECURSIVE resolveLoop(_, _, _)
resolveLoop(a, i, result) ==
    IF i > Len(a) THEN result
    ELSE IF isSub(a[i]) THEN resolveLoop(a, i + 1, result)
    ELSE IF buildSub(a[i], SubSeq(a, i + 1, Len(a))) > 0
         THEN resolveLoop(a, i + 1, Append(result, a[i]))
         ELSE resolveLoop(a, i + 1, result)

resolveIncludeExclude(a) == Uniq(resolveLoop(a, 1, <<>>))

---------------------------------------------------------------------------
(* Values: Type, Arg, Mapping, HandleFunc                                  *)

strGo == <<".", "g", "o">>
strGET == <<"G", "E", "T">>
strPOST == <<"P", "O", "S", "T">>
strPUT == <<"P", "U", "T">>
strDELETE == <<"D", "E", "L", "E", "T", "E">>
strMiddlewareGo == <<"m", "i", "d", "d", "l", "e", "w", "a", "r", "e", ".", "g", "o">>

\* Type.FullName as toType builds it: the name, or package path "." name.
FullName(t) == IF t.Path = <<>> THEN t.Name ELSE t.Path \o <<".">> \o t.Name

typString == [Path |-> <<>>, Name |-> <<"s", "t", "r", "i", "n", "g">>]
typInt == [Path |-> <<>>, Name |-> <<"i", "n", "t">>]
typError == [Path |-> <<>>, Name |-> <<"e", "r", "r", "o", "r">>]
typContext == [Path |-> <<"c", "o", "n", "t", "e", "x", "t">>,
               Name |-> <<"C", "o", "n", "t", "e", "x", "t">>]
typRequest == [Path |-> <<"n", "e", "t", "/", "h", "t", "t", "p">>,
               Name |-> <<"R", "e", "q", "u", "e", "s", "t">>]
typResponseWriter ==
    [Path |-> <<"n", "e", "t", "/", "h", "t", "t", "p">>,
     Name |-> <<"R", "e", "s", "p", "o", "n", "s", "e", "W", "r", "i", "t", "e", "r">>]
typFoo == [Path |-> <<"r", "/", "a">>, Name |-> <<"F", "o", "o">>]
typToken == [Path |-> <<"r", "/", "a">>, Name |-> <<"T", "o", "k", "e", "n">>]
typOtherToken == [Path |-> <<"r", "/", "t">>, Name |-> <<"T", "o", "k", "e", "n">>]

\* The names Type.IsPrimitive lists.
PrimitiveNames ==
    { <<"s", "t", "r", "i", "n", "g">>, <<"i", "n", "t">>, <<"i", "n", "t", "8">>,
      <<"i", "n", "t", "1", "6">>, <<"i", "n", "t", "3", "2">>,
      <<"i", "n", "t", "6", "4">>, <<"u", "i", "n", "t">>, <<"u", "i", "n", "t", "8">>,
      <<"u", "i", "n", "t", "1", "6">>, <<"u", "i", "n", "t", "3", "2">>,
      <<"u", "i", "n", "t", "6", "4">>, <<"f", "l", "o", "a", "t", "3", "2">>,
      <<"f", "l", "o", "a", "t", "6", "4">>, <<"b", "o", "o", "l">>,
      <<"b", "y", "t", "e">>, <<"r", "u", "n", "e">>,
      <<"u", "i", "n", "t", "p", "t", "r">>, <<"e", "r", "r", "o", "r">> }

IsPrimitive(t) == t.Name \in PrimitiveNames

\* A variant of Type.EqualTo that compares the names only.
EqualToName(t, t2) == t.Name = t2.Name

EqualTo(t, t2) == t.Name = t2.Name /\ t.Path = t2.Path

\* The three types generateHandler passes through without decoding.
MarkerFullNames ==
    {FullName(typContext), FullName(typRequest), FullName(typResponseWriter)}

EmptyLabel == [k \in {} |-> ""]

NoPos == [Filename |-> <<>>, Line |-> 0]

\* The zero Mapping.  middlewareData names the backing array of the
\* Middleware slice: NilAddr for an array of its own, and the address of the
\* file directive whose array an append extended in place.
EmptyMapping ==
    [Scope |-> "", HttpMethod |-> <<>>, Label |-> EmptyLabel, Middleware |-> <<>>,
     HttpCode |-> 0, PathPrefix |-> FALSE, BindQuery |-> <<>>, BindHeader |-> <<>>,
     pos |-> NoPos, middlewareData |-> <<"nil", 0>>]

\* Addresses of Mapping values.
NilAddr == <<"nil", 0>>
\* &annotations[k]
AnnAddr(k) == <<"ann", k>>
\* &globalMapping[file][0], the copy of annotations[k]
GlobAddr(k) == <<"glob", k>>
\* the &Mapping{...} BuildRestfulApi allocates for the handler with this id
BuildAddr(id) == <<"build", id>>
\* the &Mapping{...} mergeMapping allocates for the handler with this id
MergeAddr(id) == <<"merge", id>>

NoErr == [msg |-> "", Filename |-> <<>>, Line |-> 0]

\* A HandleFunc as ParseHandler returns it; id names its RequestArgs array.
NewHandleFunc(id, name, pkg, file, line) ==
    [id |-> id, Name |-> name, PackageName |-> pkg,
     Pos |-> [Filename |-> file, Line |-> line],
     With |-> NilAddr, WithGlobal |-> NilAddr, Patten |-> <<>>,
     ParentMiddlewares |-> <<>>, Middlewares |-> <<>>, mappingMerged |-> FALSE]

NewArg(name, type) ==
    [Name |-> name, Type |-> type, Location |-> "", PathParamName |-> <<>>]

---------------------------------------------------------------------------
(* bindHandleFuncMapping                                                   *)

\* The index of the last "/" of p, 0 when there is none.
LastSlash(p) ==
    LET S == {i \in DOMAIN p : p[i] = "/"}
    IN  IF S = {} THEN 0 ELSE CHOOSE i \in S : \A j \in S : j <= i

\* filepath.Split: the directory with its trailing separator, and the file.
SplitDir(p) == SubSeq(p, 1, LastSlash(p))
SplitFile(p) == SubSeq(p, LastSlash(p) + 1, Len(p))

\* slices.SortFunc on at most 12 elements is an insertion sort; with a
\* comparator that is negative exactly when less holds it leaves the elements
\* ordered by less, equal ones in their input order.  less[i][j]: the
\* comparator is negative on (s[i], s[j]).
InsertionSort(s, less) ==
    LET n == Len(s)
        before(i) == {j \in 1..n : \/ less[j][i]
                                   \/ (~less[i][j] /\ j < i)}
    IN  [r \in 1..n |-> s[CHOOSE i \in 1..n : Cardinality(before(i)) = r - 1]]

\* The comparator of BindMiddlewareFile: negative iff a's file name is less.
MiddlewareFileLess(a, b) == StrLess(a.pos.Filename, b.pos.Filename)

BindMiddlewareFile(annotation) ==
    LET middlewareFile ==
            SelectSeq(annotation, LAMBDA a : SplitFile(a.pos.Filename) = strMiddlewareGo)
    IN  InsertionSort(middlewareFile,
            [i \in DOMAIN middlewareFile |-> [j \in DOMAIN middlewareFile |->
                MiddlewareFileLess(middlewareFile[i], middlewareFile[j])]])

\* The comparator of the node sort: a.Pos().Line - b.Pos().Line < 0.
NodeLess(a, b) == a.Line < b.Line

\* nodeMap[file]: the handlers of the file, then its Mapping annotations,
\* sorted by line.
FileNodes(hs, anns, file) ==
    LET hn == [k \in DOMAIN hs |-> [kind |-> "h", idx |-> k, Line |-> hs[k].Pos.Line]]
        an == [k \in DOMAIN anns |-> [kind |-> "m", idx |-> k, Line |-> anns[k].pos.Line]]
        hf == SelectSeq(hn, LAMBDA n : hs[n.idx].Pos.Filename = file)
        af == SelectSeq(an, LAMBDA n : /\ anns[n.idx].Scope = "Mapping"
                                       /\ anns[n.idx].pos.Filename = file)
        fileNodes == hf \o af
    IN  InsertionSort(fileNodes,
            [i \in DOMAIN fileNodes |-> [j \in DOMAIN fileNodes |->
                NodeLess(fileNodes[i], fileNodes[j])]])

\* The keys of nodeMap.
NodeFiles(hs, anns) ==
    {hs[k].Pos.Filename : k \in DOMAIN hs}
        \cup {anns[k].pos.Filename : k \in {j \in DOMAIN anns : anns[j].Scope = "Mapping"}}

\* Annotations that are not Mapping-scoped and follow another such annotation
\* of the same file: the first of them makes bindHandleFuncMapping return.
DupGlobals(anns) ==
    {k \in DOMAIN anns :
        /\ anns[k].Scope # "Mapping"
        /\ \E j \in 1..(k - 1) : /\ anns[j].Scope # "Mapping"
                                 /\ anns[j].pos.Filename = anns[k].pos.Filename}

\* A variant of GlobalOf that takes the first file directive of any file.
GlobalOfAnyFile(anns, file) ==
    LET S == {k \in DOMAIN anns : anns[k].Scope # "Mapping"}
    IN  IF S = {} THEN 0 ELSE CHOOSE k \in S : \A j \in S : k <= j

\* globalMapping[file][0] is a copy of this annotation (0: the file has none).
GlobalOf(anns, file) ==
    LET S == {k \in DOMAIN anns : anns[k].Scope # "Mapping" /\ anns[k].pos.Filename = file}
    IN  IF S = {} THEN 0 ELSE CHOOSE k \in S : \A j \in S : k <= j

\* A variant of AdjacentMappings whose loop stops one position early.
AdjacentMappingsShort(nodes) ==
    {i \in 1..(Len(nodes) - 2) : nodes[i].kind = "m" /\ nodes[i + 1].kind = "m"}

\* Positions i of the sorted nodes at which a Mapping is followed by a Mapping.
AdjacentMappings(nodes) ==
    {i \in 1..(Len(nodes) - 1) : nodes[i].kind = "m" /\ nodes[i + 1].kind = "m"}

\* The error the loop over one file's nodes returns (NoErr: none).
FileError(hs, anns, file) ==
    LET nodes == FileNodes(hs, anns, file)
        A == AdjacentMappings(nodes)
    IN  IF A = {} THEN NoErr
        ELSE LET i == CHOOSE x \in A : \A y \in A : x <= y
             IN  [msg |-> "multiple annotations found", Filename |-> file,
                  Line |-> nodes[i + 1].Line]

\* A variant of BoundWith that binds the last Mapping sorted anywhere before
\* handler k in its file.
BoundWithLastSeen(hs, anns, k) ==
    LET nodes == FileNodes(hs, anns, hs[k].Pos.Filename)
        at == CHOOSE i \in DOMAIN nodes : nodes[i].kind = "h" /\ nodes[i].idx = k
        I == {i \in 1..(at - 1) : nodes[i].kind = "m"}
    IN  IF I = {} THEN hs[k].With
        ELSE AnnAddr(nodes[CHOOSE i \in I : \A j \in I : j <= i].idx)

\* The With the node loop leaves at handler k: the Mapping sorted immediately
\* before it in its file.
BoundWith(hs, anns, k) ==
    LET nodes == FileNodes(hs, anns, hs[k].Pos.Filename)
        I == {i \in 1..(Len(nodes) - 1) :
                 /\ nodes[i].kind = "m"
                 /\ nodes[i + 1].kind = "h" /\ nodes[i + 1].idx = k}
    IN  IF I = {} THEN hs[k].With
        ELSE AnnAddr(nodes[CHOOSE i \in I : TRUE].idx)

\* ParentMiddlewares after the loop over the sorted middleware files.
RECURSIVE ParentOf(_, _, _)
ParentOf(file, mws, acc) ==
    IF mws = <<>> THEN acc
    ELSE IF HasPrefix(file, SplitDir(Head(mws).pos.Filename))
         THEN ParentOf(file, Tail(mws), acc \o Head(mws).Middleware)
         ELSE ParentOf(file, Tail(mws), acc)

\* The outcomes of bindHandleFuncMapping: which file's error is returned when
\* several files have one depends on the iteration order of nodeMap.
bindHandleFuncMapping(hs, anns, m) ==
    IF DupGlobals(anns) # {}
    THEN LET k == CHOOSE x \in DupGlobals(anns) : \A y \in DupGlobals(anns) : x <= y
         IN  {[err |-> [msg |-> "multiple GlobalMapping found",
                        Filename |-> anns[k].pos.Filename, Line |-> anns[k].pos.Line],
               handlers |-> hs, mem |-> m]}
    ELSE LET bad == {f \in NodeFiles(hs, anns) : FileError(hs, anns, f) # NoErr}
         IN  IF bad # {}
             THEN {[err |-> FileError(hs, anns, f), handlers |-> hs, mem |-> m] : f \in bad}
             ELSE LET mws == BindMiddlewareFile(anns)
                      G == {GlobalOf(anns, hs[k].Pos.Filename) : k \in DOMAIN hs} \ {0}
                      bound == [k \in DOMAIN hs |->
                          [hs[k] EXCEPT
                              !.With = BoundWith(hs, anns, k),
                              !.ParentMiddlewares =
                                  ParentOf(hs[k].Pos.Filename, mws, hs[k].ParentMiddlewares),
                              !.WithGlobal =
                                  IF GlobalOf(anns, hs[k].Pos.Filename) = 0
                                  THEN hs[k].WithGlobal
                                  ELSE GlobAddr(GlobalOf(anns, hs[k].Pos.Filename))]]
                  IN  {[err |-> NoErr, handlers |-> bound,
                        mem |-> [a \in DOMAIN m \cup {GlobAddr(k) : k \in G} |->
                                    IF a \in DOMAIN m THEN m[a] ELSE anns[a[2]]]]}

---------------------------------------------------------------------------
(* BuildRestfulApi                                                         *)

\* The prefix argument: the API root directory Parse was given.
ApiRoot == <<"/", "r">>

getApiPath(prefix, str) == TrimSuffix(TrimPrefix(str, prefix), strGo)

\* The inner loop of L1: the segment becomes "{" + a.Name + "}" for the first
\* argument a named like it.
RewriteSegment(s, reqArgs) ==
    LET J == {j \in DOMAIN reqArgs : reqArgs[j].Name = s}
    IN  IF J = {} THEN s
        ELSE <<"{">> \o reqArgs[CHOOSE j \in J : \A i \in J : j <= i].Name \o <<"}">>

\* The URL pattern of a handler declared in file with these RequestArgs.
PattenOf(prefix, file, reqArgs) ==
    LET ss == Split(getApiPath(prefix, file))
    IN  Join([i \in DOMAIN ss |-> RewriteSegment(ss[i], reqArgs)])

\* apis[path][method] = h
Store(table, key, h) ==
    [k \in DOMAIN table \cup {key} |-> IF k = key THEN h ELSE table[k]]

EmptyTable == [k \in {} |-> 0]

\* A variant of HttpMethodOrGet without the default.
HttpMethodAsIs(method) == method

\* The method a handler is stored under: the directive's, GET when empty.
HttpMethodOrGet(method) == IF method = <<>> THEN strGET ELSE method

\* The loop of BuildRestfulApi over handlers i.., table and heap accumulated.
RECURSIVE BuildLoop(_, _, _, _, _, _)
BuildLoop(prefix, hs, ag, i, table, m) ==
    IF i > Len(hs) THEN [apis |-> table, mem |-> m]
    ELSE
        LET h0 == hs[i]
            fresh == h0.With = NilAddr
            w == IF fresh THEN BuildAddr(h0.id) ELSE h0.With
            m1 == IF fresh
                  THEN [a \in DOMAIN m \cup {w} |->
                           IF a = w
                           THEN [EmptyMapping EXCEPT !.HttpMethod = strGET, !.HttpCode = 200]
                           ELSE m[a]]
                  ELSE m
            method == HttpMethodOrGet(m1[w].HttpMethod)
            path == PattenOf(prefix, h0.Pos.Filename, ag[h0.id])
            h == [h0 EXCEPT !.With = w, !.Patten = path]
        IN  BuildLoop(prefix, hs, ag, i + 1, Store(table, <<path, method>>, h), m1)

---------------------------------------------------------------------------
(* HandleFunc.mergeMapping                                                 *)

\* A variant of MergeLabels in which the file directive's value wins.
MergeLabelsFileWins(g, w) ==
    [k \in DOMAIN g \cup DOMAIN w |-> IF k \in DOMAIN g THEN g[k] ELSE w[k]]

\* The label map built from the file directive's labels, then the handler's.
MergeLabels(g, w) ==
    [k \in DOMAIN g \cup DOMAIN w |-> IF k \in DOMAIN w THEN w[k] ELSE g[k]]

\* The capacity of a slice of n strings built by appending them one by one
\* to make([]string, 0), as parseMappingMiddleware does: append doubles the
\* capacity of a full slice.
RECURSIVE GrowTo(_, _)
GrowTo(n, c) == IF c >= n THEN c ELSE GrowTo(n, 2 * c)

SliceCap(n) == IF n = 0 THEN 0 ELSE GrowTo(n, 1)

\* The Middleware of a directive that shares the file directive's array,
\* after own was written behind the first n elements of that array.
WrittenBehind(mw, n, own) ==
    [i \in DOMAIN mw |-> IF i > n /\ i <= n + Len(own) THEN own[i - n] ELSE mw[i]]

\* mergeMapping on the HandleFunc value h (the receiver points at the caller's
\* copy): the value afterwards and the heap afterwards.  append on the file
\* directive's Middleware writes into its backing array when the capacity
\* suffices, and every directive whose Middleware is a longer slice of that
\* array sees what was written.
mergeMapping(h, m) ==
    IF h.mappingMerged THEN [h |-> h, mem |-> m]
    ELSE
        LET w == IF h.With = NilAddr THEN MergeAddr(h.id) ELSE h.With
            m1 == IF h.With = NilAddr
                  THEN [a \in DOMAIN m \cup {w} |->
                           IF a = w THEN [EmptyMapping EXCEPT !.HttpMethod = strGET]
                           ELSE m[a]]
                  ELSE m
            h1 == [h EXCEPT !.With = w, !.mappingMerged = TRUE]
        IN  IF h.WithGlobal = NilAddr THEN [h |-> h1, mem |-> m1]
            ELSE
                LET g == m1[h.WithGlobal]
                    own == m1[w].Middleware
                    n == Len(g.Middleware)
                    inPlace == own # <<>> /\ n + Len(own) <= SliceCap(n)
                    new == [m1[w] EXCEPT
                               !.Middleware = g.Middleware \o own,
                               !.middlewareData =
                                   IF inPlace THEN h.WithGlobal ELSE NilAddr,
                               !.BindQuery = g.BindQuery \o m1[w].BindQuery,
                               !.BindHeader = g.BindHeader \o m1[w].BindHeader,
                               !.Label = MergeLabels(g.Label, m1[w].Label)]
                IN  [h |-> [h1 EXCEPT !.Middlewares = resolveIncludeExclude(
                                          h.ParentMiddlewares \o new.Middleware)],
                     mem |-> [a \in DOMAIN m1 |->
                                 IF a = w THEN new
                                 ELSE IF inPlace /\ m1[a].middlewareData = h.WithGlobal
                                 THEN [m1[a] EXCEPT
                                          !.Middleware = WrittenBehind(@, n, own)]
                                 ELSE m1[a]]]

---------------------------------------------------------------------------
(* generateVarName and the counter of getAutoIncrementName                 *)

Digit(n) ==
    CASE n = 0 -> "0" [] n = 1 -> "1" [] n = 2 -> "2" [] n = 3 -> "3" [] n = 4 -> "4"
      [] n = 5 -> "5" [] n = 6 -> "6" [] n = 7 -> "7" [] n = 8 -> "8" [] n = 9 -> "9"

\* strconv.Itoa of a natural number.
RECURSIVE Itoa(_)
Itoa(n) == IF n < 10 THEN <<Digit(n)>> ELSE Append(Itoa(n \div 10), Digit(n % 10))

\* strings.ToLower on one letter.
Lower(c) ==
    CASE c = "A" -> "a" [] c = "B" -> "b" [] c = "C" -> "c" [] c = "D" -> "d"
      [] c = "E" -> "e" [] c = "F" -> "f" [] c = "G" -> "g" [] c = "H" -> "h"
      [] c = "I" -> "i" [] c = "J" -> "j" [] c = "K" -> "k" [] c = "L" -> "l"
      [] c = "M" -> "m" [] c = "N" -> "n" [] c = "O" -> "o" [] c = "P" -> "p"
      [] c = "Q" -> "q" [] c = "R" -> "r" [] c = "S" -> "s" [] c = "T" -> "t"
      [] c = "U" -> "u" [] c = "V" -> "v" [] c = "W" -> "w" [] c = "X" -> "x"
      [] c = "Y" -> "y" [] c = "Z" -> "z" [] OTHER -> c

strErr == <<"e", "r", "r">>
strVar == <<"_", "v", "a", "r">>
strParam == <<"P", "a", "r", "a", "m">>

\* getAutoIncrementName: the name returned and the counter map afterwards.
getAutoIncrementName(filename, prefix, counts) ==
    LET countKey == filename \o <<".">> \o prefix
        c == (IF countKey \in DOMAIN counts THEN counts[countKey] ELSE 0) + 1
    IN  [name |-> IF c = 1 THEN prefix ELSE prefix \o Itoa(c - 1),
         counts |-> [k \in DOMAIN counts \cup {countKey} |->
                        IF k = countKey THEN c ELSE counts[k]]]

\* The text after the last "." of tpe.
AfterLastDot(tpe) ==
    LET S == {i \in DOMAIN tpe : tpe[i] = "."}
    IN  IF S = {} THEN tpe
        ELSE SubSeq(tpe, (CHOOSE i \in S : \A j \in S : j <= i) + 1, Len(tpe))

generateVarName(filename, tpe, varName, counts) ==
    IF tpe = typError.Name THEN [name |-> strErr, counts |-> counts]
    ELSE IF varName # <<>> THEN getAutoIncrementName(filename, varName, counts)
    ELSE IF tpe = <<>> THEN getAutoIncrementName(filename, strVar, counts)
    ELSE LET t == AfterLastDot(tpe)
         IN  getAutoIncrementName(filename, <<Lower(t[1])>> \o Tail(t), counts)

\* autoNameHandleResponse from result i on.
RECURSIVE autoNameHandleResponse(_, _, _, _)
autoNameHandleResponse(name, rs, i, counts) ==
    IF i > Len(rs) THEN [results |-> rs, counts |-> counts]
    ELSE IF rs[i].Name # <<>> THEN autoNameHandleResponse(name, rs, i + 1, counts)
    ELSE LET g == generateVarName(name, rs[i].Type.Name, rs[i].Name, counts)
         IN  autoNameHandleResponse(name, [rs EXCEPT ![i].Name = g.name], i + 1, g.counts)

---------------------------------------------------------------------------
(* generateHandler and generateServer                                      *)

InTypes(list, t) == \E j \in DOMAIN list : EqualTo(list[j], t)

\* The loop L1 of generateHandler from argument i on.
RECURSIVE ClassifyLoop(_, _, _, _, _)
ClassifyLoop(handle, with, as, i, counts) ==
    IF i > Len(as) THEN [args |-> as, counts |-> counts]
    ELSE
        LET a == as[i]
        IN  IF FullName(a.Type) \in MarkerFullNames
            THEN ClassifyLoop(handle, with, as, i + 1, counts)
            ELSE IF InTypes(with.BindQuery, a.Type)
            THEN ClassifyLoop(handle, with, [as EXCEPT ![i].Location = "query"],
                              i + 1, counts)
            ELSE IF InTypes(with.BindHeader, a.Type)
            THEN ClassifyLoop(handle, with, [as EXCEPT ![i].Location = "header"],
                              i + 1, counts)
            ELSE IF IsPrimitive(a.Type)
            THEN IF handle.PackageName = a.Name
                 THEN LET g == generateVarName(handle.Name, <<>>,
                                               a.Name \o strParam, counts)
                      IN  ClassifyLoop(handle, with,
                              [as EXCEPT ![i].Location = "path",
                                         ![i].PathParamName = a.Name,
                                         ![i].Name = g.name],
                              i + 1, g.counts)
                 ELSE ClassifyLoop(handle, with, [as EXCEPT ![i].Location = "path"],
                                   i + 1, counts)
            ELSE ClassifyLoop(handle, with, [as EXCEPT ![i].Location = "body"],
                              i + 1, counts)

\* generateHandler on the copy handle of a table entry: the heap, the argument
\* and result arrays and the counters afterwards, and what the template reads.
generateHandler(handle, m, ag, rs, counts) ==
    LET mg == mergeMapping(handle, m)
        h == mg.h
        named == autoNameHandleResponse(h.Name, rs[h.id], 1, counts)
        cl == ClassifyLoop(h, mg.mem[h.With], ag[h.id], 1, named.counts)
    IN  [mem |-> mg.mem,
         args |-> [ag EXCEPT ![h.id] = cl.args],
         results |-> [rs EXCEPT ![h.id] = named.results],
         counts |-> cl.counts,
         info |-> [Patten |-> h.Patten,
                   HTTPMethod |-> mg.mem[h.With].HttpMethod,
                   HandlerFuncName |-> h.Name,
                   Middleware |-> h.Middlewares,
                   Label |-> mg.mem[h.With].Label,
                   RequestArgs |-> cl.args,
                   ResponseResult |-> named.results]]

\* One pass of the loop of generateServer, on the copy h of a table entry.
generateServerRoute(key, h0, m) ==
    LET mg == mergeMapping(h0, m)
    IN  [mem |-> mg.mem,
         data |-> [Match |-> IF mg.mem[mg.h.With].PathPrefix THEN "PathPrefix" ELSE "Path",
                   Patten |-> key[1], Method |-> key[2],
                   HandleFunc |-> mg.h.Name,
                   Middlewares |-> mg.h.Middlewares]]

---------------------------------------------------------------------------
(* Parser: the directive expressions and handler declarations of a file    *)

\* An argument expression of a directive call: a basic literal with its
\* source text, an identifier or selector of a constant with the text of the
\* constant's value, an identifier that is no constant, a composite literal
\* T{} of a named type, or any other expression.
LitArg(text) == [kind |-> "lit", text |-> text, type |-> typError]
ConstArg(text) == [kind |-> "const", text |-> text, type |-> typError]
IdentArg == [kind |-> "ident", text |-> <<>>, type |-> typError]
CompositeArg(type) == [kind |-> "composite", text |-> <<>>, type |-> type]
OtherArg == [kind |-> "other", text |-> <<>>, type |-> typError]

\* The source text of a string literal or of a string constant's value.
Quote(s) == <<"\"">> \o s \o <<"\"">>

\* unquote: strconv.Unquote of a double-quoted text without escapes, any
\* other text as it is.
unquote(str) ==
    IF /\ Len(str) >= 2
       /\ str[1] = "\"" /\ str[Len(str)] = "\""
       /\ \A i \in 2..(Len(str) - 1) : str[i] # "\""
    THEN SubSeq(str, 2, Len(str) - 1)
    ELSE str

\* strings.Trim(s, "\"")
TrimQuotes(s) ==
    LET I == {i \in DOMAIN s : s[i] # "\""}
    IN  IF I = {} THEN <<>>
        ELSE SubSeq(s, CHOOSE i \in I : \A j \in I : i <= j,
                       CHOOSE i \in I : \A j \in I : j <= i)

\* Parser.AddErr: the error appended to p.errs, with the position of expr.
AddErr(es, pos, msg) ==
    Append(es, [msg |-> msg, Filename |-> pos.Filename, Line |-> pos.Line])

\* Parser.mustArgsToString from argument i on: the strings and p.errs.
RECURSIVE mustArgsToString(_, _, _, _, _)
mustArgsToString(exprs, i, ss, pos, es) ==
    IF i > Len(exprs) THEN [ss |-> ss, errs |-> es]
    ELSE IF exprs[i].kind = "lit"
    THEN mustArgsToString(exprs, i + 1, Append(ss, unquote(exprs[i].text)), pos, es)
    ELSE IF exprs[i].kind = "const"
    THEN mustArgsToString(exprs, i + 1, Append(ss, TrimQuotes(exprs[i].text)), pos, es)
    ELSE mustArgsToString(exprs, i + 1, ss, pos,
                          AddErr(es, pos, "expect to be const string"))

\* Parser.parseMappingMiddleware
parseMappingMiddleware(exprs, pos, es) ==
    LET r == mustArgsToString(exprs, 1, <<>>, pos, es)
    IN  [val |-> [i \in DOMAIN r.ss |-> unquote(r.ss[i])], errs |-> r.errs]

\* Parser.parseMappingHttpMethod
parseMappingHttpMethod(exprs, pos, es) ==
    LET r == mustArgsToString(exprs, 1, <<>>, pos, es)
    IN  IF r.ss # <<>> THEN [val |-> r.ss[1], errs |-> r.errs]
        ELSE [val |-> <<>>, errs |-> AddErr(r.errs, pos, "unexpected HttpMethod arg")]

DigitValue(c) ==
    CASE c = "0" -> 0 [] c = "1" -> 1 [] c = "2" -> 2 [] c = "3" -> 3 [] c = "4" -> 4
      [] c = "5" -> 5 [] c = "6" -> 6 [] c = "7" -> 7 [] c = "8" -> 8 [] c = "9" -> 9
      [] OTHER -> -1

\* strconv.Atoi of an unsigned decimal text: -1 stands for its error.
RECURSIVE Atoi(_)
Atoi(s) ==
    IF s = <<>> THEN -1
    ELSE IF DigitValue(s[Len(s)]) < 0 THEN -1
    ELSE IF Len(s) = 1 THEN DigitValue(s[1])
    ELSE LET hi == Atoi(SubSeq(s, 1, Len(s) - 1))
         IN  IF hi < 0 THEN -1 ELSE 10 * hi + DigitValue(s[Len(s)])

\* Parser.parseMappingHttpCode
parseMappingHttpCode(exprs, pos, es) ==
    LET r == mustArgsToString(exprs, 1, <<>>, pos, es)
        code == IF r.ss = <<>> THEN -1 ELSE Atoi(unquote(r.ss[1]))
    IN  IF code >= 0 THEN [val |-> code, errs |-> r.errs]
        ELSE [val |-> 0, errs |-> AddErr(r.errs, pos, "unexpected HttpStatus arg")]

\* Parser.parseMappingBind from argument i on.
RECURSIVE parseMappingBind(_, _, _, _, _)
parseMappingBind(exprs, i, bind, pos, es) ==
    IF i > Len(exprs) THEN [val |-> bind, errs |-> es]
    ELSE IF exprs[i].kind = "composite"
    THEN parseMappingBind(exprs, i + 1, Append(bind, exprs[i].type), pos, es)
    ELSE parseMappingBind(exprs, i + 1, bind, pos,
                          AddErr(es, pos, "unexpected Mapping Bind arg"))

\* strings.Cut(s, "="): the text before and after the first "=".
Cut(s) ==
    LET I == {i \in DOMAIN s : s[i] = "="}
    IN  IF I = {} THEN [before |-> s, after |-> <<>>, found |-> FALSE]
        ELSE LET at == CHOOSE i \in I : \A j \in I : i <= j
             IN  [before |-> SubSeq(s, 1, at - 1),
                  after |-> SubSeq(s, at + 1, Len(s)), found |-> TRUE]

\* The loop of parseMappingLabel from string i on.
RECURSIVE LabelsOf(_, _, _)
LabelsOf(ss, i, labels) ==
    IF i > Len(ss) THEN labels
    ELSE LET c == Cut(TrimQuotes(ss[i]))
         IN  IF c.found
             THEN LabelsOf(ss, i + 1,
                      [k \in DOMAIN labels \cup {c.before} |->
                          IF k = c.before THEN c.after ELSE labels[k]])
             ELSE LabelsOf(ss, i + 1, labels)

\* Parser.parseMappingLabel
parseMappingLabel(exprs, pos, es) ==
    LET r == mustArgsToString(exprs, 1, <<>>, pos, es)
    IN  [val |-> LabelsOf(r.ss, 1, EmptyLabel), errs |-> r.errs]

\* Parser.parseMappingWithCallExpr on the chain root.c1(..).c2(..)...ci(..) of
\* calls of nextgo's Mapping API: the outermost call ci is handled first, then
\* the expression it is called on, down to the selector root.
RECURSIVE parseMappingWithCallExpr(_, _, _, _)
parseMappingWithCallExpr(expr, i, with, es) ==
    IF i = 0
    THEN [with |-> IF expr.root \in {"Mapping", "MappingFile"}
                   THEN [with EXCEPT !.Scope = expr.root] ELSE with,
          errs |-> es]
    ELSE
        LET c == expr.calls[i]
            pos == with.pos
        IN  CASE c.fn = "Label" ->
                   LET r == parseMappingLabel(c.args, pos, es)
                   IN  parseMappingWithCallExpr(expr, i - 1,
                           [with EXCEPT !.Label = r.val], r.errs)
              [] c.fn = "Middleware" ->
                   LET r == parseMappingMiddleware(c.args, pos, es)
                   IN  parseMappingWithCallExpr(expr, i - 1,
                           [with EXCEPT !.Middleware = r.val], r.errs)
              [] c.fn = "StatusCode" ->
                   LET r == parseMappingHttpCode(c.args, pos, es)
                   IN  parseMappingWithCallExpr(expr, i - 1,
                           [with EXCEPT !.HttpCode = r.val], r.errs)
              [] c.fn = "PathPrefix" ->
                   parseMappingWithCallExpr(expr, i - 1,
                       [with EXCEPT !.PathPrefix = TRUE], es)
              [] c.fn = "HttpMethod" ->
                   LET r == parseMappingHttpMethod(c.args, pos, es)
                   IN  parseMappingWithCallExpr(expr, i - 1,
                           [with EXCEPT !.HttpMethod = r.val], r.errs)
              [] c.fn = "BindQuery" ->
                   LET r == parseMappingBind(c.args, 1, <<>>, pos, es)
                   IN  parseMappingWithCallExpr(expr, i - 1,
                           [with EXCEPT !.BindQuery = r.val], r.errs)
              [] c.fn = "BindHeader" ->
                   LET r == parseMappingBind(c.args, 1, <<>>, pos, es)
                   IN  parseMappingWithCallExpr(expr, i - 1,
                           [with EXCEPT !.BindHeader = r.val], r.errs)
              [] OTHER -> parseMappingWithCallExpr(expr, i - 1, with, es)

\* Parser.parseMappingWith on a var declaration with one value: the API and
\* p.errs afterwards.
parseMappingWith(decl, file, api, es) ==
    LET with == [EmptyMapping EXCEPT !.pos = [Filename |-> file, Line |-> decl.line]]
        r == parseMappingWithCallExpr(decl.value, Len(decl.value.calls), with, es)
    IN  [api |-> IF r.with.Scope # ""
                 THEN [api EXCEPT !.Annotations = Append(@, r.with)]
                 ELSE api,
         errs |-> r.errs]

\* Parser.parseHandlerArg from field i on: one Arg per name of a field, one
\* without a name for a field without names.
RECURSIVE parseHandlerArg(_, _, _)
parseHandlerArg(list, i, as) ==
    IF i > Len(list) THEN as
    ELSE LET l == list[i]
         IN  IF l.names = <<>>
             THEN parseHandlerArg(list, i + 1, Append(as, NewArg(<<>>, l.type)))
             ELSE parseHandlerArg(list, i + 1,
                      as \o [j \in DOMAIN l.names |-> NewArg(l.names[j], l.type)])

\* The package name of a file: the name of its directory.
PackageOf(file) ==
    LET d == Split(SplitDir(file)) IN d[Len(d) - 1]

\* Parser.ParseHandler and the append of Visit: the API afterwards.
ParseHandler(decl, file, api) ==
    LET id == Len(api.Handlers) + 1
    IN  [api EXCEPT
            !.Handlers = Append(@, NewHandleFunc(id, decl.name, PackageOf(file),
                                                file, decl.line)),
            !.Args = Append(@, parseHandlerArg(decl.params, 1, <<>>)),
            !.Results = Append(@, parseHandlerArg(decl.results, 1, <<>>))]

\* ast.Walk with Parser.Visit over the declarations of a file from i on.
RECURSIVE Visit(_, _, _, _, _)
Visit(file, decls, i, api, es) ==
    IF i > Len(decls) THEN [api |-> api, errs |-> es]
    ELSE IF decls[i].kind = "func"
    THEN Visit(file, decls, i + 1, ParseHandler(decls[i], file, api), es)
    ELSE LET r == parseMappingWith(decls[i], file, api, es)
         IN  Visit(file, decls, i + 1, r.api, r.errs)

---------------------------------------------------------------------------
(* Middleware tokens and bounded sequences of them                         *)

MaxLen == 5

tokA == <<"a">>
tokB == <<"b">>
tokAx == <<"a", "-">>
tokBx == <<"b", "-">>

Tokens == {tokA, tokB, tokAx, tokBx}
PlainTokens == {t \in Tokens : ~isSub(t)}

SeqsUpTo(S, n) == UNION {[1..k -> S] : k \in 0..n}

---------------------------------------------------------------------------
(* The run: BuildRestfulApi, then Generate                                 *)

Routes == DOMAIN apis

\* BuildRestfulApi(prefix, api): bindHandleFuncMapping, then the loop that
\* fills the table; an error of the binding is returned with no table.
BuildRestfulApi ==
    /\ pc = "build"
    /\ \E o \in bindHandleFuncMapping(handlers, input.Annotations, mem) :
          IF o.err # NoErr
          THEN /\ err' = o.err
               /\ pc' = "failed"
               /\ UNCHANGED <<handlers, mem, apis>>
          ELSE LET b == BuildLoop(ApiRoot, o.handlers, args, 1, EmptyTable, o.mem)
               IN  /\ handlers' = o.handlers
                   /\ mem' = b.mem
                   /\ apis' = b.apis
                   /\ err' = NoErr
                   /\ pc' = "handlers"
    /\ UNCHANGED <<arrs, out, input, args, results, genDone, svrDone, nameCount,
                   routeInfo, svrApis, parseVars>>

\* Generate calls generateApiHandler once per pattern, which runs
\* generateHandler for every method of the pattern; both loops range over maps.
\* A route is next when no other pattern is half done.
MayGenerate(key) ==
    /\ key \in Routes \ genDone
    /\ \A k \in genDone :
           k[1] # key[1] => \A k2 \in Routes : k2[1] = k[1] => k2 \in genDone

GenerateHandler(key) ==
    /\ pc = "handlers"
    /\ MayGenerate(key)
    /\ LET g == generateHandler(apis[key], mem, args, results, nameCount)
       IN  /\ mem' = g.mem
           /\ args' = g.args
           /\ results' = g.results
           /\ nameCount' = g.counts
           /\ routeInfo' = [k \in DOMAIN routeInfo \cup {key} |->
                               IF k = key THEN g.info ELSE routeInfo[k]]
    /\ genDone' = genDone \cup {key}
    /\ pc' = IF genDone' = Routes THEN "server" ELSE "handlers"
    /\ UNCHANGED <<arrs, out, input, handlers, apis, err, svrDone, svrApis, parseVars>>

\* One pass of the loop of generateServer over the table.
GenerateServer(key) ==
    /\ pc = "server"
    /\ key \in Routes \ svrDone
    /\ LET g == generateServerRoute(key, apis[key], mem)
       IN  /\ mem' = g.mem
           /\ svrApis' = [k \in DOMAIN svrApis \cup {key} |->
                             IF k = key THEN g.data ELSE svrApis[k]]
    /\ svrDone' = svrDone \cup {key}
    /\ pc' = IF svrDone' = Routes THEN "done" ELSE "server"
    /\ UNCHANGED <<arrs, out, input, handlers, args, results, apis, err, genDone,
                   nameCount, routeInfo, parseVars>>

\* One pass of the loop of Parse over the files: the file is walked with a
\* new Parser on the shared API and the parser's errors are printed; after the
\* last file Parse calls BuildRestfulApi.
WalkFile ==
    /\ pc = "walk"
    /\ walked < Len(source)
    /\ LET f == source[walked + 1]
           r == Visit(f.name, f.decls, 1, input, <<>>)
       IN  /\ input' = r.api
           /\ handlers' = r.api.Handlers
           /\ args' = r.api.Args
           /\ results' = r.api.Results
           /\ mem' = [a \in {AnnAddr(k) : k \in DOMAIN r.api.Annotations} |->
                          r.api.Annotations[a[2]]]
           /\ errs' = errs \o r.errs
    /\ walked' = walked + 1
    /\ pc' = IF walked' = Len(source) THEN "build" ELSE "walk"
    /\ UNCHANGED <<arrs, out, apis, err, genDone, svrDone, nameCount, routeInfo,
                   svrApis, source>>

Next ==
    \/ BuildRestfulApi
    \/ \E key \in Routes : GenerateHandler(key)
    \/ \E key \in Routes : GenerateServer(key)

---------------------------------------------------------------------------
(* Inputs                                                                  *)

MaxHandlers == 2

strId == <<"i", "d">>
strReq == <<"r", "e", "q">>
strCtx == <<"c", "t", "x">>

fileRootId == <<"/", "r", "/", "i", "d", ".", "g", "o">>
fileAId == <<"/", "r", "/", "a", "/", "i", "d", ".", "g", "o">>
fileTId == <<"/", "r", "/", "t", "/", "i", "d", ".", "g", "o">>
fileIdId == <<"/", "r", "/", "i", "d", "/", "i", "d", ".", "g", "o">>
fileAReq == <<"/", "r", "/", "a", "/", "r", "e", "q", ".", "g", "o">>
fileRootMw == <<"/", "r", "/">> \o strMiddlewareGo
fileAMw == <<"/", "r", "/", "a", "/">> \o strMiddlewareGo
fileTMw == <<"/", "r", "/", "t", "/">> \o strMiddlewareGo

\* The name of the k-th handler of an input.
HandlerName(k) == <<"h">> \o Itoa(k)

\* What every run starts from, given the scanned handlers, their argument
\* and result lists and the scanned annotations.
InitPipeline(hs, ag, rs, anns) ==
    /\ pc = "build"
    /\ arrs = <<>>
    /\ out = <<>>
    /\ input = [Handlers |-> hs, Args |-> ag, Results |-> rs, Annotations |-> anns]
    /\ handlers = hs
    /\ mem = [a \in {AnnAddr(k) : k \in DOMAIN anns} |-> anns[a[2]]]
    /\ args = ag
    /\ results = rs
    /\ apis = EmptyTable
    /\ err = NoErr
    /\ genDone = {}
    /\ svrDone = {}
    /\ nameCount = [k \in {} |-> 0]
    /\ routeInfo = [k \in {} |-> 0]
    /\ svrApis = [k \in {} |-> 0]
    /\ source = <<>>
    /\ walked = 0
    /\ errs = <<>>

\* Route synthesis: handlers without directives, over files whose segments
\* match parameter names once, twice or not at all.
RouteFiles == {fileRootId, fileAId, fileIdId, fileAReq}

RouteArgLists ==
    { <<NewArg(strId, typString)>>,
      <<NewArg(strCtx, typContext), NewArg(strId, typInt), NewArg(strReq, typFoo)>>,
      <<NewArg(strId, typFoo)>>,
      <<NewArg(strReq, typRequest), NewArg(<<"a">>, typString)>>,
      <<NewArg(<<>>, typString)>> }

InitRoute ==
    \E n \in 1..MaxHandlers :
        \E fs \in [1..n -> RouteFiles], ag \in [1..n -> RouteArgLists] :
            InitPipeline(
                [k \in 1..n |->
                    NewHandleFunc(k, HandlerName(k), PackageOf(fs[k]), fs[k], 2 * k)],
                ag,
                [k \in 1..n |-> <<NewArg(<<>>, typFoo), NewArg(<<>>, typError)>>],
                <<>>)

Spec == InitRoute /\ [][Next]_vars

\* Merging: up to MaxHandlers handlers of one file in directory a or t, with
\* or without a middleware.go in the API root and in that directory, a file
\* directive and each handler's own directive.
MergeDirs == {<<"a">>, <<"t">>}
RootMiddlewares == {<<tokA>>, <<tokA, tokB>>}
DirMiddlewares == {<<tokB>>, <<tokAx>>}
FileMiddlewares == {<<tokA>>, <<tokB>>}
OwnMiddlewares == {<<tokAx>>, <<tokBx>>, <<tokB>>}

\* Nothing, or one of S.
Optional(S) == {<<>>} \cup {<<x>> : x \in S}

DirectiveAt(scope, file, line, mw) ==
    [EmptyMapping EXCEPT !.Scope = scope, !.Middleware = mw,
                         !.pos = [Filename |-> file, Line |-> line]]

\* The HttpMethod argument of the k-th handler's own directive: none for
\* the first handler.
OwnMethod(k) ==
    CASE k = 1 -> <<>> [] k = 2 -> strPOST [] k = 3 -> strPUT [] OTHER -> strDELETE

InitMerge ==
    \E n \in 1..MaxHandlers, d \in MergeDirs :
        \E rootMw \in Optional(RootMiddlewares), dirMw \in Optional(DirMiddlewares),
           fileMw \in Optional(FileMiddlewares),
           own \in [1..n -> Optional(OwnMiddlewares)] :
            LET dir == <<"/", "r", "/">> \o d \o <<"/">>
                file == dir \o strId \o strGo
                present == {k \in 1..n : own[k] # <<>>}
                ownAnns == [k \in 1..n |->
                    [DirectiveAt("Mapping", file, 2 * k,
                                 IF own[k] = <<>> THEN <<>> ELSE own[k][1])
                        EXCEPT !.HttpMethod = OwnMethod(k)]]
            IN  InitPipeline(
                    [k \in 1..n |->
                        NewHandleFunc(k, HandlerName(k), d, file, 2 * k + 1)],
                    [k \in 1..n |->
                        <<NewArg(strCtx, typContext), NewArg(strId, typString)>>],
                    [k \in 1..n |-> <<NewArg(<<>>, typError)>>],
                    (IF rootMw = <<>> THEN <<>>
                     ELSE <<DirectiveAt("Mapping", <<"/", "r", "/">> \o strMiddlewareGo,
                                        1, rootMw[1])>>)
                    \o (IF dirMw = <<>> THEN <<>>
                        ELSE <<DirectiveAt("Mapping", dir \o strMiddlewareGo, 1, dirMw[1])>>)
                    \o (IF fileMw = <<>> THEN <<>>
                        ELSE <<DirectiveAt("MappingFile", file, 1, fileMw[1])>>)
                    \o SelectSeq(ownAnns, LAMBDA a : \E k \in present : a = ownAnns[k]))

SpecMerge == InitMerge /\ [][Next]_vars

\* Binding: up to MaxHandlers handlers of /r/t/id.go, each with parameters
\* of the marker types, of primitive type and of struct types, with or
\* without a file directive and an own directive that carry binding lists.
BindArgs ==
    <<NewArg(strCtx, typContext), NewArg(strReq, typRequest),
      NewArg(<<"w">>, typResponseWriter), NewArg(strId, typString),
      NewArg(<<"f">>, typFoo), NewArg(<<"k">>, typToken),
      NewArg(<<"o">>, typOtherToken)>>

FileBindQuery == {<<>>, <<typToken>>, <<typString>>, <<typContext>>}
FileBindHeader == {<<>>, <<typToken>>, <<typOtherToken>>, <<typString>>}
OwnBindQuery == {<<>>, <<typFoo>>}
OwnBindHeader == {<<>>, <<typFoo>>, <<typToken>>}

\* The binding lists of a directive: BindQuery and BindHeader.
BindLists(Q, H) == {[q |-> q, h |-> h] : q \in Q, h \in H}

InitBind ==
    \E n \in 1..MaxHandlers :
        \E fileB \in Optional(BindLists(FileBindQuery, FileBindHeader)),
           own \in [1..n -> Optional(BindLists(OwnBindQuery, OwnBindHeader))] :
            LET present == {k \in 1..n : own[k] # <<>>}
                ownAnns == [k \in 1..n |->
                    IF own[k] = <<>> THEN EmptyMapping
                    ELSE [DirectiveAt("Mapping", fileTId, 2 * k, <<>>)
                            EXCEPT !.HttpMethod = OwnMethod(k),
                                   !.BindQuery = own[k][1].q,
                                   !.BindHeader = own[k][1].h]]
            IN  InitPipeline(
                    [k \in 1..n |->
                        NewHandleFunc(k, HandlerName(k), <<"t">>, fileTId, 2 * k + 1)],
                    [k \in 1..n |-> BindArgs],
                    [k \in 1..n |-> <<NewArg(<<>>, typError)>>],
                    (IF fileB = <<>> THEN <<>>
                     ELSE <<[DirectiveAt("MappingFile", fileTId, 1, <<>>)
                               EXCEPT !.BindQuery = fileB[1].q,
                                      !.BindHeader = fileB[1].h]>>)
                    \o SelectSeq(ownAnns, LAMBDA a : \E k \in present : a = ownAnns[k]))

SpecBind == InitBind /\ [][Next]_vars

\* Annotation binding: two files whose declarations are handlers ("h"),
\* Mapping directives without ("m") and with HttpMethod("POST") ("p") and
\* MappingFile directives ("g"), one declaration per line.  /r/a/id.go holds
\* any sequence of up to MaxNodes declarations, /r/t/id.go one of a few.
MaxNodes == 3

NodeKinds == {"h", "m", "p", "g"}

OtherLayouts == {<<"h">>, <<"m", "h">>, <<"g", "h">>, <<"m", "m">>}

\* The declarations of a file with this layout, in source order.
DeclsOf(file, layout) ==
    [i \in DOMAIN layout |-> [file |-> file, kind |-> layout[i], line |-> i]]

InitAnnot ==
    \E la \in SeqsUpTo(NodeKinds, MaxNodes), lt \in OtherLayouts :
        LET decls == DeclsOf(fileAId, la) \o DeclsOf(fileTId, lt)
            hd == SelectSeq(decls, LAMBDA d : d.kind = "h")
            ad == SelectSeq(decls, LAMBDA d : d.kind # "h")
        IN  InitPipeline(
                [k \in DOMAIN hd |->
                    NewHandleFunc(k, HandlerName(k), PackageOf(hd[k].file),
                                  hd[k].file, hd[k].line)],
                [k \in DOMAIN hd |-> <<NewArg(strId, typString)>>],
                [k \in DOMAIN hd |-> <<NewArg(<<>>, typError)>>],
                [k \in DOMAIN ad |->
                    [DirectiveAt(IF ad[k].kind = "g" THEN "MappingFile" ELSE "Mapping",
                                 ad[k].file, ad[k].line, <<>>)
                        EXCEPT !.HttpMethod = IF ad[k].kind = "p" THEN strPOST ELSE <<>>]])

SpecAnnot == InitAnnot /\ [][Next]_vars

\* Parsing: /r/a/id.go declares one directive, a chain of up to MaxCalls calls
\* on Mapping or MappingFile, and then handler h1; /r/t/id.go, when present,
\* declares handler h2.
MaxCalls == 2

Call(fn, exprs) == [fn |-> fn, args |-> exprs]

CallSet ==
    { Call("Middleware", <<LitArg(Quote(tokA))>>),
      Call("Middleware", <<LitArg(Quote(tokB)), ConstArg(Quote(tokAx))>>),
      Call("Middleware", <<IdentArg>>),
      Call("HttpMethod", <<LitArg(Quote(strPOST))>>),
      Call("HttpMethod", <<ConstArg(Quote(strPUT))>>),
      Call("StatusCode", <<LitArg(<<"2", "0", "1">>)>>),
      Call("StatusCode", <<LitArg(Quote(tokA))>>),
      Call("BindQuery", <<CompositeArg(typFoo)>>),
      Call("BindHeader", <<OtherArg>>),
      Call("PathPrefix", <<>>),
      Call("Label", <<LitArg(Quote(<<"k", "=", "v">>))>>) }

VarDecl(line, value) ==
    [kind |-> "var", line |-> line, value |-> value, name |-> <<>>,
     params |-> <<>>, results |-> <<>>]

FuncDecl(line, name, params, res) ==
    [kind |-> "func", line |-> line, value |-> [root |-> "", calls |-> <<>>],
     name |-> name, params |-> params, results |-> res]

Field(names, type) == [names |-> names, type |-> type]

InitParse ==
    \E root \in {"Mapping", "MappingFile"}, calls \in SeqsUpTo(CallSet, MaxCalls),
       others \in {<<>>, <<[name |-> fileTId,
                           decls |-> <<FuncDecl(1, HandlerName(2),
                                                <<Field(<<strCtx>>, typContext)>>,
                                                <<Field(<<>>, typError)>>)>>]>>} :
        /\ pc = "walk"
        /\ source =
               <<[name |-> fileAId,
                  decls |-> <<VarDecl(1, [root |-> root, calls |-> calls]),
                              FuncDecl(2, HandlerName(1),
                                       <<Field(<<strId>>, typString)>>,
                                       <<Field(<<>>, typFoo), Field(<<>>, typError)>>)>>]>>
               \o others
        /\ walked = 0
        /\ errs = <<>>
        /\ arrs = <<>>
        /\ out = <<>>
        /\ input = [Handlers |-> <<>>, Args |-> <<>>, Results |-> <<>>,
                    Annotations |-> <<>>]
        /\ handlers = <<>>
        /\ mem = [a \in {} |-> EmptyMapping]
        /\ args = <<>>
        /\ results = <<>>
        /\ apis = EmptyTable
        /\ err = NoErr
        /\ genDone = {}
        /\ svrDone = {}
        /\ nameCount = [k \in {} |-> 0]
        /\ routeInfo = [k \in {} |-> 0]
        /\ svrApis = [k \in {} |-> 0]

NextParse ==
    \/ WalkFile
    \/ BuildRestfulApi
    \/ \E key \in Routes : GenerateHandler(key)
    \/ \E key \in Routes : GenerateServer(key)

SpecParse == InitParse /\ [][NextParse]_vars

\* Naming: handlers of different packages, which may carry the same function
\* name, with unnamed results and a path parameter named like the package.
fileAIdId == <<"/", "r", "/", "a", "/", "i", "d", "/", "i", "d", ".", "g", "o">>

NamingFiles == {fileAId, fileIdId, fileAIdId}

NamingArgLists ==
    { <<NewArg(strId, typString)>>,
      <<NewArg(strCtx, typContext), NewArg(strId, typInt)>> }

NamingResultLists ==
    { <<NewArg(<<>>, typFoo), NewArg(<<>>, typError)>>,
      <<NewArg(<<>>, typFoo), NewArg(<<>>, typFoo)>>,
      <<NewArg(<<"x">>, typFoo)>> }

InitNaming ==
    \E n \in 1..MaxHandlers :
        \E fs \in [1..n -> NamingFiles], nm \in [1..n -> 1..2],
           ag \in [1..n -> NamingArgLists], rs \in [1..n -> NamingResultLists] :
            /\ \A j, k \in 1..n : j # k => fs[j] # fs[k]
            /\ InitPipeline(
                   [k \in 1..n |->
                       NewHandleFunc(k, HandlerName(nm[k]), PackageOf(fs[k]), fs[k],
                                     2 * k)],
                   ag, rs, <<>>)

SpecNaming == InitNaming /\ [][Next]_vars

\* Labels: up to MaxHandlers handlers of /r/a/id.go, with or without a file
\* directive and an own directive, each with a label map: empty, one key, or
\* keys the other directive has too.
LabelOf(keys, value) == [k \in keys |-> value]

FileLabels ==
    {EmptyLabel, LabelOf({<<"k">>}, <<"f">>), LabelOf({<<"k">>, <<"j">>}, <<"f">>)}

OwnLabels ==
    {EmptyLabel, LabelOf({<<"k">>}, <<"h">>), LabelOf({<<"m">>}, <<"h">>),
     LabelOf({<<"k">>}, <<>>)}

InitLabel ==
    \E n \in 1..MaxHandlers :
        \E fileL \in Optional(FileLabels), own \in [1..n -> Optional(OwnLabels)] :
            LET present == {k \in 1..n : own[k] # <<>>}
                ownAnns == [k \in 1..n |->
                    [DirectiveAt("Mapping", fileAId, 2 * k, <<>>)
                        EXCEPT !.HttpMethod = OwnMethod(k),
                               !.Label = IF own[k] = <<>> THEN EmptyLabel
                                         ELSE own[k][1]]]
            IN  InitPipeline(
                    [k \in 1..n |->
                        NewHandleFunc(k, HandlerName(k), <<"a">>, fileAId, 2 * k + 1)],
                    [k \in 1..n |-> <<NewArg(strId, typString)>>],
                    [k \in 1..n |-> <<NewArg(<<>>, typError)>>],
                    (IF fileL = <<>> THEN <<>>
                     ELSE <<[DirectiveAt("MappingFile", fileAId, 1, <<>>)
                                EXCEPT !.Label = fileL[1]]>>)
                    \o SelectSeq(ownAnns, LAMBDA a : \E k \in present : a = ownAnns[k]))

SpecLabel == InitLabel /\ [][Next]_vars

\* Shared file directive: up to MaxHandlers handlers of /r/a/id.go under one
\* MappingFile directive with one to three middleware arguments, each handler
\* with or without an own directive with one middleware argument.
SharedMiddlewares == {<<tokA>>, <<tokA, tokB>>, <<tokA, tokB, tokAx>>}

InitShared ==
    \E n \in 1..MaxHandlers :
        \E fileMw \in SharedMiddlewares, own \in [1..n -> Optional(OwnMiddlewares)] :
            LET present == {k \in 1..n : own[k] # <<>>}
                ownAnns == [k \in 1..n |->
                    [DirectiveAt("Mapping", fileAId, 2 * k,
                                 IF own[k] = <<>> THEN <<>> ELSE own[k][1])
                        EXCEPT !.HttpMethod = OwnMethod(k)]]
            IN  InitPipeline(
                    [k \in 1..n |->
                        NewHandleFunc(k, HandlerName(k), <<"a">>, fileAId, 2 * k + 1)],
                    [k \in 1..n |-> <<NewArg(strId, typString)>>],
                    [k \in 1..n |-> <<NewArg(<<>>, typError)>>],
                    <<DirectiveAt("MappingFile", fileAId, 1, fileMw)>>
                    \o SelectSeq(ownAnns, LAMBDA a : \E k \in present : a = ownAnns[k]))

SpecShared == InitShared /\ [][Next]_vars

---------------------------------------------------------------------------
(* SpecResolve: resolveIncludeExclude applied to every bounded sequence    *)

InitResolve ==
    /\ pc = "resolve"
    /\ arrs \in SeqsUpTo(Tokens, MaxLen)
    /\ out = <<>>
    /\ input = [Handlers |-> <<>>, Args |-> <<>>, Results |-> <<>>, Annotations |-> <<>>]
    /\ handlers = <<>>
    /\ mem = <<>>
    /\ args = <<>>
    /\ results = <<>>
    /\ apis = <<>>
    /\ err = NoErr
    /\ genDone = {}
    /\ svrDone = {}
    /\ nameCount = <<>>
    /\ routeInfo = <<>>
    /\ svrApis = <<>>
    /\ source = <<>>
    /\ walked = 0
    /\ errs = <<>>

Resolve ==
    /\ pc = "resolve"
    /\ out' = resolveIncludeExclude(arrs)
    /\ pc' = "resolved"
    /\ UNCHANGED <<arrs, pipelineVars, parseVars>>

NextResolve == Resolve

SpecResolve == InitResolve /\ [][NextResolve]_vars

---------------------------------------------------------------------------
(* Claims about resolveIncludeExclude (checked under SpecResolve)          *)

\* The positions of token t in s after position i.
After(s, t, i) == {j \in (i + 1)..Len(s) : s[j] = t}

\* Position i of s holds a plain token whose count over the rest of the
\* sequence (itself +1, later equal tokens +1, later removals -1) is positive.
Survives(s, i) ==
    /\ ~HasSuffix(s[i], <<"-">>)
    /\ 1 + Cardinality(After(s, s[i], i))
         - Cardinality(After(s, s[i] \o <<"-">>, i)) > 0

NoDuplicates(s) == \A i, j \in DOMAIN s : s[i] = s[j] => i = j

\* The first position of t in s (t occurs in s).
FirstIndex(s, t) == CHOOSE i \in DOMAIN s :
    s[i] = t /\ \A j \in DOMAIN s : s[j] = t => i <= j

\* The first surviving position of t in s (some occurrence of t survives).
FirstSurviving(s, t) == CHOOSE i \in DOMAIN s :
    /\ s[i] = t /\ Survives(s, i)
    /\ \A j \in DOMAIN s : (s[j] = t /\ Survives(s, j)) => i <= j

Range(s) == {s[i] : i \in DOMAIN s}

\* C5: for every prefix P and plain tokens x # y,
\* resolveIncludeExclude(P ++ [x, y, x-]) = resolveIncludeExclude(P ++ [y]).
C5_RemovalCancelsPredecessor ==
    pc = "resolved" =>
        \A x, y \in PlainTokens :
            ( /\ x # y
              /\ Len(arrs) >= 3
              /\ SubSeq(arrs, Len(arrs) - 2, Len(arrs)) = <<x, y, x \o <<"-">>>> )
            => out = resolveIncludeExclude(
                         SubSeq(arrs, 1, Len(arrs) - 3) \o <<y>>)

\* C5 witness: P = [a] already holds x = a; [a, a, b, a-] resolves to [a, b].
C5_Witness ==
    /\ pc = "resolved"
    /\ arrs = <<tokA, tokA, tokB, tokAx>>
    /\ out = <<tokA, tokB>>

\* C6 as stated: the output has no duplicate and is ordered by the position
\* of each token's first occurrence in the input.
C6_OrderedByFirstOccurrence ==
    pc = "resolved" =>
        /\ NoDuplicates(out)
        /\ \A i, j \in DOMAIN out :
               i < j => FirstIndex(arrs, out[i]) < FirstIndex(arrs, out[j])

\* C6 amended: the output has no duplicate, holds exactly the tokens with a
\* surviving occurrence, and is ordered by the position of each token's
\* first surviving occurrence in the input.
C6_OrderedByFirstSurviving ==
    pc = "resolved" =>
        /\ NoDuplicates(out)
        /\ Range(out) = {arrs[i] : i \in {k \in DOMAIN arrs : Survives(arrs, k)}}
        /\ \A i, j \in DOMAIN out :
               i < j => FirstSurviving(arrs, out[i]) < FirstSurviving(arrs, out[j])

\* C6 witness: [a, b, a] gives [a, b].
C6_Witness ==
    /\ pc = "resolved"
    /\ arrs = <<tokA, tokB, tokA>>
    /\ out = <<tokA, tokB>>

\* C7 as stated: when a removal token t- occurs after every occurrence of the
\* plain token t, t is not in the output.
C7_RemovalAfterAllRemoves ==
    pc = "resolved" =>
        \A t \in PlainTokens :
            (\E j \in DOMAIN arrs :
                /\ arrs[j] = t \o <<"-">>
                /\ \A i \in DOMAIN arrs : arrs[i] = t => i < j)
            => t \notin Range(out)

---------------------------------------------------------------------------
(* Claims about the route table (checked under Spec)                       *)

\* The method BuildRestfulApi stores handler h under.
MethodOf(h) ==
    IF h.With = NilAddr \/ mem[h.With].HttpMethod = <<>> THEN strGET
    ELSE mem[h.With].HttpMethod

\* The route of the k-th input handler: its pattern and method.
RouteOf(k) ==
    <<PattenOf(ApiRoot, handlers[k].Pos.Filename, input.Args[k]), MethodOf(handlers[k])>>

\* The segments of the k-th input handler's path below the API root.
SegmentsOf(k) == Split(getApiPath(ApiRoot, input.Handlers[k].Pos.Filename))

Placeholder(name) == <<"{">> \o name \o <<"}">>

IsPlaceholder(seg) == Len(seg) >= 2 /\ seg[1] = "{" /\ seg[Len(seg)] = "}"

\* The k-th input handler has a parameter of primitive type with this name.
HasPrimitiveParam(k, name) ==
    \E j \in DOMAIN input.Args[k] :
        input.Args[k][j].Name = name /\ IsPrimitive(input.Args[k][j].Type)

\* C1 as stated: when two handlers of the input resolve to the same
\* (pattern, method) pair, BuildRestfulApi returns an error, and never a
\* table in which one of them replaced the other.
C1_CollisionIsRejected ==
    (pc # "build" /\ \E i, j \in DOMAIN handlers : i # j /\ RouteOf(i) = RouteOf(j))
        => (err # NoErr /\ Routes = {})

\* C8 as stated: in the pattern of every route a segment is {name} when it
\* equals the name of a parameter of primitive type and is unchanged
\* otherwise, and generateHandler locates every such parameter in the path.
C8_PrimitiveSegmentsRewritten ==
    \A key \in Routes :
        LET k == apis[key].id
            ss == SegmentsOf(k)
            ps == Split(apis[key].Patten)
        IN  /\ Len(ps) = Len(ss)
            /\ \A i \in DOMAIN ss :
                   ps[i] = IF HasPrimitiveParam(k, ss[i]) THEN Placeholder(ss[i])
                           ELSE ss[i]
            /\ key \in genDone =>
                   \A j \in DOMAIN input.Args[k] :
                       ( /\ IsPrimitive(input.Args[k][j].Type)
                         /\ \E i \in DOMAIN ss : ss[i] = input.Args[k][j].Name )
                       => args[k][j].Location = "path"

\* C9 as stated: every placeholder of a built pattern stands where a segment
\* equals the name of a parameter of primitive type.
C9_PlaceholdersArePrimitive ==
    \A key \in Routes :
        LET k == apis[key].id
            ss == SegmentsOf(k)
            ps == Split(apis[key].Patten)
        IN  \A i \in DOMAIN ps :
                (i \in DOMAIN ss /\ ps[i] = Placeholder(ss[i]))
                    => HasPrimitiveParam(k, ss[i])

\* C10 as stated: the placeholders of a pattern are pairwise distinct.
C10_PlaceholdersDistinct ==
    \A key \in Routes :
        LET ps == Split(apis[key].Patten)
        IN  \A i, j \in DOMAIN ps :
                (i # j /\ IsPlaceholder(ps[i]) /\ IsPlaceholder(ps[j])) => ps[i] # ps[j]

---------------------------------------------------------------------------
(* Claims about merging (checked under SpecMerge)                          *)

\* The middleware the directive at this address declared in the source.
DeclaredMiddleware(addr) ==
    IF addr[1] \in {"ann", "glob"} THEN input.Annotations[addr[2]].Middleware ELSE <<>>

\* The middleware.go declarations of the directories that contain file,
\* shallowest directory first.
DeclarationsAbove(file) ==
    LET on == SelectSeq(input.Annotations,
                  LAMBDA a : /\ SplitFile(a.pos.Filename) = strMiddlewareGo
                             /\ HasPrefix(file, SplitDir(a.pos.Filename)))
    IN  InsertionSort(on,
            [i \in DOMAIN on |-> [j \in DOMAIN on |->
                Len(SplitDir(on[i].pos.Filename)) < Len(SplitDir(on[j].pos.Filename))]])

RECURSIVE ConcatMiddleware(_)
ConcatMiddleware(ds) ==
    IF ds = <<>> THEN <<>> ELSE Head(ds).Middleware \o ConcatMiddleware(Tail(ds))

\* C2 as stated: the middleware list generateHandler gets from mergeMapping is
\* resolveIncludeExclude(M1 ++ ... ++ Mn ++ F.Middleware ++ H.Middleware); the
\* inherited part M1 ++ ... ++ Mn is read as bindHandleFuncMapping bound it
\* (its order is the subject of C3).
C2_FinalMiddleware ==
    \A key \in genDone :
        routeInfo[key].Middleware =
            resolveIncludeExclude(apis[key].ParentMiddlewares
                                  \o DeclaredMiddleware(apis[key].WithGlobal)
                                  \o DeclaredMiddleware(apis[key].With))

\* C3 as stated: a handler's inherited middleware is the concatenation of the
\* middleware.go declarations on its path, root first.
C3_RootToLeaf ==
    pc \notin {"build", "failed"} =>
        \A k \in DOMAIN handlers :
            handlers[k].ParentMiddlewares =
                ConcatMiddleware(DeclarationsAbove(handlers[k].Pos.Filename))

\* C4 as stated: merging a handler again (generateServer merges a copy of the
\* table entry generateHandler already merged a copy of) changes no directive
\* and yields the final middleware list of the first merge.
C4_MergeIdempotent ==
    [][pc = "server" =>
         /\ mem' = mem
         /\ \A key \in svrDone' \ svrDone :
                svrApis'[key].Middlewares = routeInfo[key].Middleware]_vars

---------------------------------------------------------------------------
(* Claims about the binding classifier (checked under SpecBind)            *)

\* The directive at this address as the source declared it (the zero Mapping
\* for no directive and for the defaults the build allocates).
DeclaredAt(addr) ==
    IF addr[1] \in {"ann", "glob"} THEN input.Annotations[addr[2]] ELSE EmptyMapping

\* Type t is listed in list: same package path and same name.
Listed(list, t) ==
    \E i \in DOMAIN list : list[i].Path = t.Path /\ list[i].Name = t.Name

IsMarker(t) ==
    \/ t.Path = <<"c", "o", "n", "t", "e", "x", "t">>
         /\ t.Name = <<"C", "o", "n", "t", "e", "x", "t">>
    \/ t.Path = <<"n", "e", "t", "/", "h", "t", "t", "p">>
         /\ t.Name \in {<<"R", "e", "q", "u", "e", "s", "t">>,
                        <<"R", "e", "s", "p", "o", "n", "s", "e", "W", "r", "i", "t", "e", "r">>}

\* The location the precedence rule gives a parameter of type t under the
\* query-binding list Q and the header-binding list H.
LocationByPrecedence(t, Q, H) ==
    IF IsMarker(t) THEN ""
    ELSE IF Listed(Q, t) THEN "query"
    ELSE IF Listed(H, t) THEN "header"
    ELSE IF t.Name \in PrimitiveNames THEN "path"
    ELSE "body"

\* C11: generateHandler gives every parameter the location of the precedence
\* rule over the file directive's binding lists followed by the handler's own:
\* none for a marker type, else query, else header, else path for a primitive
\* type, else body.
C11_LocationByPrecedence ==
    \A key \in genDone :
        LET k == apis[key].id
            F == DeclaredAt(handlers[k].WithGlobal)
            H == DeclaredAt(handlers[k].With)
        IN  \A j \in DOMAIN args[k] :
                args[k][j].Location =
                    LocationByPrecedence(input.Args[k][j].Type,
                                         F.BindQuery \o H.BindQuery,
                                         F.BindHeader \o H.BindHeader)

\* C11 witness: under a file directive BindHeader(Token{}) and no own binding
\* of Foo, the Token parameter is header-bound, the struct parameter
\* body-bound and the string parameter path-bound.
C11_Witness ==
    \E key \in genDone :
        LET k == apis[key].id
        IN  /\ handlers[k].WithGlobal # NilAddr
            /\ DeclaredAt(handlers[k].WithGlobal).BindHeader = <<typToken>>
            /\ DeclaredAt(handlers[k].WithGlobal).BindQuery = <<>>
            /\ args[k][6].Location = "header"
            /\ args[k][5].Location = "body"
            /\ args[k][4].Location = "path"
            /\ args[k][1].Location = ""

---------------------------------------------------------------------------
(* Claims about annotation binding (checked under SpecAnnot)               *)

\* The Mapping directives of the input, by index.
PerHandler == {j \in DOMAIN input.Annotations : input.Annotations[j].Scope = "Mapping"}

\* The MappingFile directives of file.
PerFile(file) ==
    {j \in DOMAIN input.Annotations :
        /\ input.Annotations[j].Scope = "MappingFile"
        /\ input.Annotations[j].pos.Filename = file}

\* The lines of file that hold a handler or a Mapping directive.
ItemLines(file) ==
    {input.Handlers[k].Pos.Line :
        k \in {i \in DOMAIN input.Handlers : input.Handlers[i].Pos.Filename = file}}
    \cup {input.Annotations[j].pos.Line :
        j \in {i \in PerHandler : input.Annotations[i].pos.Filename = file}}

\* No handler and no Mapping directive of file lies strictly between the lines.
NothingBetween(file, from, to) ==
    \A l \in ItemLines(file) : ~(from < l /\ l < to)

\* Mapping directive j immediately precedes handler k in their file.
Precedes(j, k) ==
    LET a == input.Annotations[j]
        h == input.Handlers[k]
    IN  /\ j \in PerHandler
        /\ a.pos.Filename = h.Pos.Filename
        /\ a.pos.Line < h.Pos.Line
        /\ NothingBetween(h.Pos.Filename, a.pos.Line, h.Pos.Line)

\* Some Mapping directive of file is immediately followed by another.
AdjacentDirectives(file) ==
    \E i, j \in PerHandler :
        /\ input.Annotations[i].pos.Filename = file
        /\ input.Annotations[j].pos.Filename = file
        /\ input.Annotations[i].pos.Line < input.Annotations[j].pos.Line
        /\ NothingBetween(file, input.Annotations[i].pos.Line,
                          input.Annotations[j].pos.Line)

\* Mapping directive j has no handler after it in its file.
Dangling(j) ==
    /\ j \in PerHandler
    /\ \A k \in DOMAIN input.Handlers :
           input.Handlers[k].Pos.Filename = input.Annotations[j].pos.Filename
               => input.Handlers[k].Pos.Line < input.Annotations[j].pos.Line

\* The files of the input.
InputFiles ==
    {input.Handlers[k].Pos.Filename : k \in DOMAIN input.Handlers}
    \cup {input.Annotations[j].pos.Filename : j \in DOMAIN input.Annotations}

\* C12: after a successful binding every handler's own directive is the
\* Mapping directive immediately preceding it in its file, a handler without
\* one has none, and no directive is bound to two handlers.
C12_BindsNearestFollowing ==
    pc \notin {"build", "failed"} =>
        /\ \A k \in DOMAIN handlers :
               IF \E j \in PerHandler : Precedes(j, k)
               THEN \E j \in PerHandler : Precedes(j, k) /\ handlers[k].With = AnnAddr(j)
               ELSE handlers[k].With = NilAddr
        /\ \A j \in PerHandler :
               Cardinality({k \in DOMAIN handlers : handlers[k].With = AnnAddr(j)}) <= 1

\* C12 witness: of two handlers that follow one directive, the first is bound
\* to it and the second to none.
C12_Witness ==
    /\ pc = "handlers"
    /\ \E k1, k2 \in DOMAIN handlers, j \in PerHandler :
           /\ handlers[k1].Pos.Filename = handlers[k2].Pos.Filename
           /\ input.Annotations[j].pos.Line < handlers[k1].Pos.Line
           /\ handlers[k1].Pos.Line < handlers[k2].Pos.Line
           /\ handlers[k1].With = AnnAddr(j)
           /\ handlers[k2].With = NilAddr

\* C13: when some file has a Mapping directive immediately followed by
\* another, the build returns an error and no route table.
C13_AdjacentDirectivesRejected ==
    (pc # "build" /\ \E f \in InputFiles : AdjacentDirectives(f))
        => (pc = "failed" /\ err # NoErr /\ Routes = {})

\* C13 witness: the build failed on two adjacent directives.
C13_Witness ==
    /\ pc = "failed"
    /\ err.msg = "multiple annotations found"
    /\ AdjacentDirectives(err.Filename)
    /\ Routes = {}

\* C14 as stated: a Mapping directive with no handler after it in its file
\* makes the build return an error.
C14_DanglingDirectiveRejected ==
    (pc # "build" /\ \E j \in PerHandler : Dangling(j)) => err # NoErr

\* C15: a file with two or more MappingFile directives makes the build fail;
\* otherwise every handler's file-global directive is the one MappingFile
\* directive of its own file, and none when its file has none.
C15_OneFileDirective ==
    pc # "build" =>
        /\ (\E f \in InputFiles : Cardinality(PerFile(f)) >= 2)
               => (pc = "failed" /\ err # NoErr /\ Routes = {})
        /\ pc # "failed" =>
               \A k \in DOMAIN handlers :
                   LET G == PerFile(handlers[k].Pos.Filename)
                   IN  IF G = {} THEN handlers[k].WithGlobal = NilAddr
                       ELSE \E j \in G :
                               /\ handlers[k].WithGlobal = GlobAddr(j)
                               /\ mem[GlobAddr(j)].pos = input.Annotations[j].pos
                               /\ mem[GlobAddr(j)].Scope = "MappingFile"

\* C15 witness: one handler has its file's directive, a handler of the other
\* file has none.
C15_Witness ==
    /\ pc = "handlers"
    /\ \E k1, k2 \in DOMAIN handlers :
           /\ handlers[k1].Pos.Filename # handlers[k2].Pos.Filename
           /\ handlers[k1].WithGlobal # NilAddr
           /\ mem[handlers[k1].WithGlobal].pos.Filename = handlers[k1].Pos.Filename
           /\ PerFile(handlers[k2].Pos.Filename) = {}
           /\ handlers[k2].WithGlobal = NilAddr

\* File has a duplicate MappingFile directive or a misplaced Mapping directive.
HasMergeError(file) ==
    \/ Cardinality(PerFile(file)) >= 2
    \/ AdjacentDirectives(file)

\* C16 as stated: a merge error in one file leaves the handlers of every
\* error-free file in the result.
C16_ErrorsArePerFile ==
    pc # "build" =>
        \A k \in DOMAIN handlers :
            ~HasMergeError(handlers[k].Pos.Filename) => RouteOf(k) \in Routes

---------------------------------------------------------------------------
(* Claims about parsing (checked under SpecParse)                          *)

\* The declarations of the source, each with its file.
SourceDecls ==
    UNION {{[file |-> source[f].name, decl |-> source[f].decls[d]] :
               d \in DOMAIN source[f].decls} : f \in DOMAIN source}

\* The directive declarations: chains on Mapping or MappingFile.
DirectiveDecls ==
    {x \in SourceDecls :
        x.decl.kind = "var" /\ x.decl.value.root \in {"Mapping", "MappingFile"}}

\* The calls of this name in a chain, in source order.
CallsOf(value, fn) == SelectSeq(value.calls, LAMBDA c : c.fn = fn)

\* Every argument of the calls is a string literal or a string constant.
AllConstant(calls) ==
    \A i \in DOMAIN calls :
        \A j \in DOMAIN calls[i].args : calls[i].args[j].kind \in {"lit", "const"}

\* The string an argument denotes: its quoted text without the quotes.
ValueOf(expr) == SubSeq(expr.text, 2, Len(expr.text) - 1)

\* The values of the arguments of the calls, call after call.
RECURSIVE ArgValues(_)
ArgValues(calls) ==
    IF calls = <<>> THEN <<>>
    ELSE [j \in DOMAIN Head(calls).args |-> ValueOf(Head(calls).args[j])]
             \o ArgValues(Tail(calls))

\* The parsed directive of a directive declaration.
ParsedAt(x) ==
    {a \in Range(input.Annotations) :
        a.pos.Filename = x.file /\ a.pos.Line = x.decl.line}

\* The directive declaration right before handler k in its file, if any.
OwnDecl(k) ==
    {x \in DirectiveDecls :
        /\ x.decl.value.root = "Mapping"
        /\ x.file = input.Handlers[k].Pos.Filename
        /\ x.decl.line < input.Handlers[k].Pos.Line
        /\ \A y \in SourceDecls :
               y.file = x.file
                   => ~(x.decl.line < y.decl.line
                        /\ y.decl.line < input.Handlers[k].Pos.Line)}

\* The method handler k is declared with: the argument of the HttpMethod call
\* of its directive (M), GET without a directive or without such a call; no
\* method is stated for a chain with several HttpMethod calls or with a
\* non-constant argument.
DeclaredMethods(k) ==
    IF OwnDecl(k) = {} THEN {strGET}
    ELSE UNION {
        LET hm == CallsOf(x.decl.value, "HttpMethod")
        IN  IF hm = <<>> THEN {strGET}
            ELSE IF Len(hm) = 1 /\ AllConstant(hm) THEN {ValueOf(hm[1].args[1])}
            ELSE {} : x \in OwnDecl(k)}

\* C17: every handler is stored under the method its directive's HttpMethod
\* call gives, and under GET when it has no directive or the directive has no
\* HttpMethod call.
C17_StoredUnderDeclaredMethod ==
    pc \in {"handlers", "server", "done"} =>
        /\ \A k \in DOMAIN handlers :
               \A m \in DeclaredMethods(k) :
                   <<PattenOf(ApiRoot, handlers[k].Pos.Filename, input.Args[k]), m>>
                       \in Routes
        /\ \A key \in Routes :
               \A m \in DeclaredMethods(apis[key].id) : key[2] = m

\* C17 witness: h1 is stored under the POST of its directive, h2, which has
\* no directive, under GET.
C17_Witness ==
    /\ pc = "handlers"
    /\ \E k1, k2 \in Routes :
           /\ apis[k1].id = 1 /\ k1[2] = strPOST /\ DeclaredMethods(1) = {strPOST}
           /\ apis[k2].id = 2 /\ k2[2] = strGET /\ OwnDecl(2) = {}

\* C18 as stated: the middleware list of a parsed directive is the
\* concatenation of the arguments of all Middleware calls of its chain, in
\* source call order.
C18_MiddlewareAppends ==
    pc # "walk" =>
        \A x \in DirectiveDecls :
            LET mw == CallsOf(x.decl.value, "Middleware")
            IN  (mw # <<>> /\ AllConstant(mw))
                    => \A a \in ParsedAt(x) : a.Middleware = ArgValues(mw)

---------------------------------------------------------------------------
(* Synthetic names                                                         *)

\* The names of a list of parameters or results.
NamesOf(list) == [i \in DOMAIN list |-> list[i].Name]

\* The names generateHandler gives h's results and parameters when h is the
\* only handler the process ever generates: the counter starts empty.
NamesAlone(h) ==
    LET named == autoNameHandleResponse(h.Name, input.Results[h.id], 1, <<>>)
        cl == ClassifyLoop(h, mem[h.With], input.Args[h.id], 1, named.counts)
    IN  [results |-> NamesOf(named.results), args |-> NamesOf(cl.args)]

\* C20 as stated: the synthetic names generated for a handler's unnamed
\* results and renamed path parameters depend only on that handler, not on
\* which other handlers were generated earlier in the same process.
C20_NamesDependOnHandlerOnly ==
    \A key \in genDone :
        LET h == apis[key]
        IN  /\ NamesOf(routeInfo[key].ResponseResult) = NamesAlone(h).results
            /\ NamesOf(routeInfo[key].RequestArgs) = NamesAlone(h).args

---------------------------------------------------------------------------
(* Determinism of the build (checked under SpecAnnot)                      *)

\* What BuildRestfulApi can return on the scanned input: the error, or the
\* route table, of every outcome of bindHandleFuncMapping.
BuildOutcomes ==
    {IF o.err # NoErr THEN [err |-> o.err, apis |-> EmptyTable]
     ELSE [err |-> NoErr,
           apis |-> BuildLoop(ApiRoot, o.handlers, input.Args, 1, EmptyTable,
                              o.mem).apis] :
        o \in bindHandleFuncMapping(input.Handlers, input.Annotations,
                  [a \in {AnnAddr(k) : k \in DOMAIN input.Annotations} |->
                      input.Annotations[a[2]]])}

\* C21 as stated: whatever BuildRestfulApi has returned, the error or the
\* route table, is the one outcome the input determines.
C21_BuildIsDeterministic ==
    pc \notin {"walk", "build"} =>
        \A o \in BuildOutcomes : err = o.err /\ apis = o.apis

---------------------------------------------------------------------------
(* Claims about path parameters (checked under Spec)                       *)

\* C22 as stated: every parameter generateHandler hands to the template with
\* Location path carries its declared name as PathParamName, renamed or not.
C22_PathParamNameIsDeclaredName ==
    \A key \in genDone :
        LET as == routeInfo[key].RequestArgs
        IN  \A i \in DOMAIN as :
                as[i].Location = "path"
                    => as[i].PathParamName = input.Args[apis[key].id][i].Name

---------------------------------------------------------------------------
(* resolveIncludeExclude against its reference rule (under SpecResolve)    *)

\* The plain tokens of s at the positions the rule keeps, in input order: the
\* token at i is kept iff 1 + (later occurrences of it) - (later occurrences
\* of its removal token) > 0.
KeptByRule(s) ==
    LET idx == [i \in DOMAIN s |-> i]
        keep == SelectSeq(idx, LAMBDA i : Survives(s, i))
    IN  [k \in DOMAIN keep |-> s[keep[k]]]

\* C23: no token ending in "-" is output; a token is output iff the rule
\* keeps one of its occurrences, the output being the kept occurrences in
\* input order without repetitions; and the occurrences kept from position i
\* on are the same on the input and on the input without what precedes i.
C23_AgreesWithReferenceRule ==
    pc = "resolved" =>
        /\ \A j \in DOMAIN out : ~HasSuffix(out[j], <<"-">>)
        /\ out = Uniq(KeptByRule(arrs))
        /\ \A i \in DOMAIN arrs :
               LET rest == SubSeq(arrs, i, Len(arrs))
               IN  /\ resolveLoop(rest, 1, <<>>) = KeptByRule(rest)
                   /\ HasSuffix(resolveLoop(arrs, 1, <<>>), KeptByRule(rest))

\* C23 witness: in [a-, a, b, b-] the removal before a has no effect and the
\* removal after b removes it.
C23_Witness ==
    /\ pc = "resolved"
    /\ arrs = <<tokAx, tokA, tokB, tokBx>>
    /\ out = <<tokA>>

\* C30: the output holds only plain tokens that occur in the input, and
\* resolving the output again returns it unchanged.
C30_IdempotentAndClean ==
    pc = "resolved" =>
        /\ \A j \in DOMAIN out :
               ~HasSuffix(out[j], <<"-">>) /\ out[j] \in Range(arrs)
        /\ resolveIncludeExclude(out) = out

\* C30 witness: [a, b, a-, b] resolves to [b], which resolves to itself.
C30_Witness ==
    /\ pc = "resolved"
    /\ arrs = <<tokA, tokB, tokAx, tokB>>
    /\ out = <<tokB>>
    /\ resolveIncludeExclude(out) = <<tokB>>

---------------------------------------------------------------------------
(* Claims about labels (checked under SpecLabel)                           *)

\* L holds exactly the keys of F and H, with H's value where H has the key
\* and F's value elsewhere.
HandlerOverridesFile(L, F, H) ==
    /\ DOMAIN L = DOMAIN F \cup DOMAIN H
    /\ \A k \in DOMAIN H : L[k] = H[k]
    /\ \A k \in DOMAIN F \ DOMAIN H : L[k] = F[k]

\* C24: for every route merged by generateHandler or generateServer whose
\* file has a file directive F, the label map of the handler's directive, and
\* the one handed to the handler template, hold the keys of F and of the
\* handler's declared directive H with H's value overriding F's, and F's own
\* label map is as declared.
C24_LabelsMergeHandlerOverFile ==
    \A key \in genDone \cup svrDone :
        LET h == apis[key]
            F == DeclaredAt(h.WithGlobal).Label
            H == DeclaredAt(h.With).Label
        IN  h.WithGlobal # NilAddr =>
                /\ HandlerOverridesFile(mem[h.With].Label, F, H)
                /\ key \in genDone => HandlerOverridesFile(routeInfo[key].Label, F, H)
                /\ mem[h.WithGlobal].Label = F

\* C24 witness: a route merged twice whose file and own directive share the
\* key k with different values, the file directive alone having the key j.
C24_Witness ==
    \E key \in genDone \cap svrDone :
        LET h == apis[key]
            F == DeclaredAt(h.WithGlobal).Label
            H == DeclaredAt(h.With).Label
        IN  /\ h.WithGlobal # NilAddr
            /\ DOMAIN F = {<<"k">>, <<"j">>}
            /\ DOMAIN H = {<<"k">>}
            /\ routeInfo[key].Label[<<"k">>] = <<"h">>
            /\ routeInfo[key].Label[<<"j">>] = <<"f">>
            /\ mem[h.With].Label = routeInfo[key].Label

---------------------------------------------------------------------------
(* Claims about renamed path parameters (checked under SpecNaming)         *)

\* C25 as stated: of the parameters generateHandler locates in the path, one
\* named like the handler's package is renamed to its name plus "Param" (the
\* first name of a counter of the handler's own), keeps its declared name as
\* PathParamName and as the placeholder of the pattern, and every other one
\* keeps its declared name.
C25_PackageNamedParamRenamed ==
    \A key \in genDone :
        LET h == apis[key]
            as == routeInfo[key].RequestArgs
            segs == Split(getApiPath(ApiRoot, h.Pos.Filename))
            pat == Split(routeInfo[key].Patten)
        IN  \A i \in DOMAIN as :
                LET declared == input.Args[h.id][i].Name
                IN  as[i].Location = "path" =>
                        IF declared = h.PackageName
                        THEN /\ as[i].Name = declared \o strParam
                             /\ as[i].PathParamName = declared
                             /\ \A j \in DOMAIN segs :
                                    segs[j] = declared => pat[j] = Placeholder(declared)
                        ELSE as[i].Name = declared

---------------------------------------------------------------------------
(* Claims about the two emission sites (checked under SpecMerge)           *)

\* C26 as stated: for every route both generateHandler and generateServer
\* have passed, the middleware list of the server data equals the list
\* handed to the handler template.
C26_SameMiddlewareAtBothSites ==
    \A key \in genDone \cap svrDone :
        svrApis[key].Middlewares = routeInfo[key].Middleware

---------------------------------------------------------------------------
(* Claims about handlers of one file (checked under SpecShared)            *)

\* The routes a step of generateHandler or generateServer has passed.
Merged == (genDone' \ genDone) \cup (svrDone' \ svrDone)

\* C27 as stated: the merge of one route's handler leaves the middleware and
\* binding lists of every file directive, and the merged middleware list of
\* every other route's directive, as they were.
C27_MergeLeavesOthersAlone ==
    [][\A key \in Merged :
           /\ \A a \in DOMAIN mem :
                  a[1] = "glob" =>
                      /\ mem'[a].Middleware = mem[a].Middleware
                      /\ mem'[a].BindQuery = mem[a].BindQuery
                      /\ mem'[a].BindHeader = mem[a].BindHeader
           /\ \A other \in Routes \ {key} :
                  apis[other].With \in DOMAIN mem =>
                      mem'[apis[other].With].Middleware
                          = mem[apis[other].With].Middleware]_vars

---------------------------------------------------------------------------
(* Claims about the method of a route (checked under SpecParse)            *)

\* C28 as stated: for every route of the table the HttpMethod of the route's
\* own directive, and the HTTPMethod generateHandler hands to the handler
\* template, equal the method the route is stored under.
C28_DirectiveMethodIsKey ==
    \A key \in Routes :
        /\ mem[apis[key].With].HttpMethod = key[2]
        /\ key \in genDone => routeInfo[key].HTTPMethod = key[2]

---------------------------------------------------------------------------
(* Claims about the shape of patterns (checked under Spec)                 *)

\* C29 as stated: every pattern of the table starts with "/" and none of its
\* segments is a placeholder around the empty name.
C29_PlaceholdersNamed ==
    \A key \in Routes :
        /\ HasPrefix(key[1], <<"/">>)
        /\ \A j \in DOMAIN Split(key[1]) : Split(key[1])[j] # Placeholder(<<>>)

=============================================================================
